---- MODULE Spec2Model ----
(***************************************************************************)
(* Model of HARBORBAY_V1/generar_lisp_HARBORBAY.py: main() loads the       *)
(* configuration, merges the rows of torres.csv into a per-tower record,   *)
(* writes the drawing (LISP) file and the bill of materials.               *)
(*                                                                         *)
(* Python strings are sequences of one-character strings, so that int(),   *)
(* substring tests on column names and the derivation of a switch role     *)
(* from a column name are computed as the code computes them.              *)
(***************************************************************************)
EXTENDS Integers, Sequences, FiniteSets, TLC

(***************************************************************************)
(* Bounds of the model.                                                    *)
(***************************************************************************)
\* longest torres.csv (data rows) the model reads
MaxRows == 2
\* last second of the wall clock read by datetime.now()
MaxReloj == 2

(***************************************************************************)
(* Strings.                                                                *)
(***************************************************************************)
Digits == {"0", "1", "2", "3", "4", "5", "6", "7", "8", "9"}

DigitVal(c) ==
    CASE c = "0" -> 0 [] c = "1" -> 1 [] c = "2" -> 2 [] c = "3" -> 3
      [] c = "4" -> 4 [] c = "5" -> 5 [] c = "6" -> 6 [] c = "7" -> 7
      [] c = "8" -> 8 [] c = "9" -> 9

\* str.strip() on blanks
RECURSIVE LStrip(_)
LStrip(s) == IF s # <<>> /\ Head(s) = " " THEN LStrip(Tail(s)) ELSE s

RECURSIVE RStrip(_)
RStrip(s) ==
    IF s # <<>> /\ s[Len(s)] = " " THEN RStrip(SubSeq(s, 1, Len(s) - 1)) ELSE s

RECURSIVE DigitsValue(_, _)
DigitsValue(s, acc) ==
    IF s = <<>> THEN acc ELSE DigitsValue(Tail(s), 10 * acc + DigitVal(Head(s)))

\* int(s) for a str: blanks stripped, an optional sign, one or more decimal
\* digits; anything else raises ValueError.
ParseInt(s) ==
    LET t == RStrip(LStrip(s))
        signed == t # <<>> /\ Head(t) \in {"-", "+"}
        d == IF signed THEN Tail(t) ELSE t
    IN  IF d # <<>> /\ \A i \in 1..Len(d) : d[i] \in Digits
        THEN [ok |-> TRUE,
              v |-> IF signed /\ Head(t) = "-"
                    THEN 0 - DigitsValue(d, 0) ELSE DigitsValue(d, 0)]
        ELSE [ok |-> FALSE, v |-> 0]

\* sub in s
Contains(sub, s) ==
    \E i \in 0..(Len(s) - Len(sub)) : SubSeq(s, i + 1, i + Len(sub)) = sub

\* s.startswith(pre)
StartsWith(s, pre) == Len(s) >= Len(pre) /\ SubSeq(s, 1, Len(pre)) = pre

\* index of the first "_" of s at or after position i, Len(s) + 1 if none
RECURSIVE FindUnderscore(_, _)
FindUnderscore(s, i) ==
    IF i > Len(s) THEN Len(s) + 1
    ELSE IF s[i] = "_" THEN i ELSE FindUnderscore(s, i + 1)

\* s.split('_')[1], for s holding at least one "_"
SplitSecond(s) ==
    LET a == FindUnderscore(s, 1)
        b == FindUnderscore(s, a + 1)
    IN  SubSeq(s, a + 1, b - 1)

UpperChar(c) ==
    CASE c = "a" -> "A" [] c = "b" -> "B" [] c = "c" -> "C" [] c = "d" -> "D"
      [] c = "e" -> "E" [] c = "f" -> "F" [] c = "g" -> "G" [] c = "h" -> "H"
      [] c = "i" -> "I" [] c = "j" -> "J" [] c = "k" -> "K" [] c = "l" -> "L"
      [] c = "m" -> "M" [] c = "n" -> "N" [] c = "o" -> "O" [] c = "p" -> "P"
      [] c = "q" -> "Q" [] c = "r" -> "R" [] c = "s" -> "S" [] c = "t" -> "T"
      [] c = "u" -> "U" [] c = "v" -> "V" [] c = "w" -> "W" [] c = "x" -> "X"
      [] c = "y" -> "Y" [] c = "z" -> "Z" [] OTHER -> c

\* s.upper()
Upper(s) == [i \in 1..Len(s) |-> UpperChar(s[i])]

(***************************************************************************)
(* Column names of torres.csv and the literals the code tests them with.   *)
(***************************************************************************)
K_TORRE == <<"T", "O", "R", "R", "E">>
K_NIVEL == <<"N", "I", "V", "E", "L">>
K_torre_nombre == <<"t", "o", "r", "r", "e", "_", "n", "o", "m", "b", "r", "e">>
K_nivel_nombre == <<"n", "i", "v", "e", "l", "_", "n", "o", "m", "b", "r", "e">>
K_apQty == <<"a", "p", "Q", "t", "y">>
K_camQty == <<"c", "a", "m", "Q", "t", "y">>
K_switch_core == <<"s", "w", "i", "t", "c", "h", "_", "c", "o", "r", "e">>
K_switch_core_modelo == K_switch_core \o <<"_", "m", "o", "d", "e", "l", "o">>

L_Qty == <<"Q", "t", "y">>
L_switch_ == <<"s", "w", "i", "t", "c", "h", "_">>
L_modelo == <<"_", "m", "o", "d", "e", "l", "o">>
L_nombre == <<"_", "n", "o", "m", "b", "r", "e">>
L_SW == <<"S", "W", "-">>
L_0 == <<"0">>

\* the header of torres.csv, in file order
Columnas ==
    <<K_TORRE, K_NIVEL, K_torre_nombre, K_nivel_nombre, K_apQty, K_camQty,
      K_switch_core, K_switch_core_modelo>>

\* extends a partial mapping
Put(f, k, v) == [x \in DOMAIN f \cup {k} |-> IF x = k THEN v ELSE f[x]]

Range(s) == {s[i] : i \in DOMAIN s}

(***************************************************************************)
(* Rows of csv.DictReader: a mapping from column name to a cell.  A cell   *)
(* is a str, or None where the line is shorter than the header.            *)
(***************************************************************************)
Str(s) == [none |-> FALSE, s |-> s]
None == [none |-> TRUE, s |-> <<>>]

\* bool(value) of a cell
Truthy(c) == ~c.none /\ c.s # <<>>

\* values of a level's mapping: an int (quantities) or a str (names, models)
Num(n) == [int |-> TRUE, n |-> n, s |-> <<>>]
Txt(s) == [int |-> FALSE, n |-> 0, s |-> s]

\* the default factory of torres (lines 53-58)
NuevaTorre == [nombre |-> <<>>, niveles |-> <<>>, switches |-> <<>>]

\* torres[torre_id] of the defaultdict: the tower, created when absent
TorreDe(torres, t) == IF t \in DOMAIN torres THEN torres[t] ELSE NuevaTorre

\* torres[t]['niveles'][n] of the defaultdict: the level, created when absent
NivelDe(torre, n) == IF n \in DOMAIN torre.niveles THEN torre.niveles[n] ELSE <<>>

\* the tower map with level n of tower t set to niv
ConNivel(torres, t, n, niv) ==
    LET tor == TorreDe(torres, t)
    IN  Put(torres, t, [tor EXCEPT !.niveles = Put(tor.niveles, n, niv)])

\* line 75: 'Qty' in key or 'switch_' in key and '_modelo' not in key
EsCantidad(key) ==
    Contains(L_Qty, key) \/ (Contains(L_switch_, key) /\ ~Contains(L_modelo, key))

\* line 81: '_modelo' in key or '_nombre' in key
EsTexto(key) == Contains(L_modelo, key) \/ Contains(L_nombre, key)

\* line 77 written with = instead of +=: a later row overwrites
SumarCantidadSobrescribe(torres, t, n, key, value) ==
    LET niv == IF t \in DOMAIN torres /\ n \in DOMAIN torres[t].niveles
               THEN torres[t].niveles[n] ELSE <<>>
        old == IF key \in DOMAIN niv THEN niv[key] ELSE [int |-> TRUE, n |-> 0, s |-> <<>>]
        p == ParseInt(value)
        nuevo == Put(niv, key, IF p.ok THEN [int |-> TRUE, n |-> p.v, s |-> <<>>] ELSE old)
        tor == IF t \in DOMAIN torres THEN torres[t]
               ELSE [nombre |-> <<>>, niveles |-> <<>>, switches |-> <<>>]
    IN  Put(torres, t, [tor EXCEPT !.niveles = Put(tor.niveles, n, nuevo)])

\* line 77 with its try/except: torres[t]['niveles'][n][key] += int(value).
\* The subscript is read (and so created with 0 by defaultdict(int)) before
\* int(value) is evaluated; a ValueError leaves that 0 behind.
SumarCantidad(torres, t, n, key, value) ==
    LET niv == NivelDe(TorreDe(torres, t), n)
        old == IF key \in DOMAIN niv THEN niv[key] ELSE Num(0)
        p == ParseInt(value)
    IN  ConNivel(torres, t, n,
                 Put(niv, key, IF p.ok THEN Num(old.n + p.v) ELSE old))

\* line 82: torres[t]['niveles'][n][key] = value
PonerTexto(torres, t, n, key, value) ==
    ConNivel(torres, t, n, Put(NivelDe(TorreDe(torres, t), n), key, Txt(value)))

\* lines 71-82: the loop over row.items(), from column i of the header on
RECURSIVE FusionarNivel(_, _, _, _, _)
FusionarNivel(torres, t, n, row, i) ==
    IF i > Len(Columnas) THEN torres
    ELSE LET key == Columnas[i]
             nxt == IF key \notin DOMAIN row \/ ~Truthy(row[key]) THEN torres
                    ELSE IF EsCantidad(key)
                         THEN SumarCantidad(torres, t, n, key, row[key].s)
                    ELSE IF EsTexto(key)
                         THEN PonerTexto(torres, t, n, key, row[key].s)
                    ELSE torres
         IN  FusionarNivel(nxt, t, n, row, i + 1)

\* line 86: the column is a switch indicator whose value is not the sentinel
EsIndicador(row, key) ==
    /\ StartsWith(key, L_switch_)
    /\ ~Contains(L_modelo, key)
    /\ (IF Truthy(row[key]) THEN row[key].s ELSE L_0) # L_0

\* line 87: "SW-" + sw_key.split('_')[1].upper()
NombreSwitch(key) == L_SW \o Upper(SplitSecond(key))

\* lines 88-90: the role is stored under the paired model
RegistrarSwitch(torres, t, row, key) ==
    LET modelo_key == key \o L_modelo
        tor == TorreDe(torres, t)
    IN  IF modelo_key \in DOMAIN row /\ Truthy(row[modelo_key])
        THEN Put(torres, t,
                 [tor EXCEPT !.switches =
                      Put(tor.switches, NombreSwitch(key), row[modelo_key].s)])
        ELSE torres

\* lines 85-90: the loop over the row's columns
RECURSIVE ConsolidarSwitches(_, _, _, _)
ConsolidarSwitches(torres, t, row, i) ==
    IF i > Len(Columnas) THEN torres
    ELSE LET key == Columnas[i]
             nxt == IF key \in DOMAIN row /\ EsIndicador(row, key)
                    THEN RegistrarSwitch(torres, t, row, key)
                    ELSE torres
         IN  ConsolidarSwitches(nxt, t, row, i + 1)

\* int(row[key]) of lines 64-65: the exception it raises, or "" and the int
LeerEntero(row, key) ==
    IF key \notin DOMAIN row THEN [err |-> "KeyError", v |-> 0]
    ELSE IF row[key].none THEN [err |-> "TypeError", v |-> 0]
    ELSE LET p == ParseInt(row[key].s)
         IN  IF p.ok THEN [err |-> "", v |-> p.v]
             ELSE [err |-> "ValueError", v |-> 0]

\* lines 63-90: the body of the try for one row; err names the exception
\* that leaves the body ("" when none does)
ProcesarFila(torres, row) ==
    LET t == LeerEntero(row, K_TORRE)
        n == LeerEntero(row, K_NIVEL)
    IN  IF t.err # "" THEN [torres |-> torres, err |-> t.err]
        ELSE IF n.err # "" THEN [torres |-> torres, err |-> n.err]
        ELSE IF K_torre_nombre \notin DOMAIN row
             THEN [torres |-> torres, err |-> "KeyError"]
        ELSE LET a == IF Truthy(row[K_torre_nombre])
                      THEN Put(torres, t.v,
                               [TorreDe(torres, t.v) EXCEPT
                                    !.nombre = row[K_torre_nombre].s])
                      ELSE torres
                 b == FusionarNivel(a, t.v, n.v, row, 1)
             IN  [torres |-> ConsolidarSwitches(b, t.v, row, 1), err |-> ""]

(***************************************************************************)
(* The inputs: config.json and torres.csv.                                 *)
(***************************************************************************)
R_SW_CORE == <<"S", "W", "-", "C", "O", "R", "E">>
R_SW_UPS == <<"S", "W", "-", "U", "P", "S">>

\* spacing constants of config.json, read through cfg[...] by generar_lisp
X_INICIAL == 0
Y_INICIAL == 0
LONGITUD_PISO == 400
SEPARACION_ENTRE_TORRES == 100
ESPACIO_ENTRE_NIVELES == 200
TORRE_LABEL_OFFSET_Y == 100
TORRE_LABEL_ALTURA == 20
SWITCH_VERTICAL_SPACING == 60
SWITCH_ANCHO == 100
SWITCH_ALTO == 40
SWITCH_TEXTO_ALTURA == 10
CABLE_TRUNK_OFFSET_X == 20
CABLE_TRUNK_OFFSET_Y == 50
DISPOSITIVO_Y_OFFSET == 40
DISPOSITIVO_ESPACIADO_X == 80

\* a config.json: the layer table and the device catalog keep file order
ConfigBase ==
    [X_INICIAL |-> X_INICIAL, Y_INICIAL |-> Y_INICIAL,
     LONGITUD_PISO |-> LONGITUD_PISO,
     SEPARACION_ENTRE_TORRES |-> SEPARACION_ENTRE_TORRES,
     ESPACIO_ENTRE_NIVELES |-> ESPACIO_ENTRE_NIVELES,
     TORRE_LABEL_OFFSET_Y |-> TORRE_LABEL_OFFSET_Y,
     TORRE_LABEL_ALTURA |-> TORRE_LABEL_ALTURA,
     SWITCH_VERTICAL_SPACING |-> SWITCH_VERTICAL_SPACING,
     SWITCH_ANCHO |-> SWITCH_ANCHO, SWITCH_ALTO |-> SWITCH_ALTO,
     SWITCH_TEXTO_ALTURA |-> SWITCH_TEXTO_ALTURA,
     CABLE_TRUNK_OFFSET_X |-> CABLE_TRUNK_OFFSET_X,
     CABLE_TRUNK_OFFSET_Y |-> CABLE_TRUNK_OFFSET_Y,
     DISPOSITIVO_Y_OFFSET |-> DISPOSITIVO_Y_OFFSET,
     DISPOSITIVO_ESPACIADO_X |-> DISPOSITIVO_ESPACIADO_X,
     CAPAS |-> << <<"Niveles", 8>>, <<"Switches", 3>>, <<"UPS", 6>>,
                  <<"APs", 4>>, <<"Camaras", 2>>, <<"Cables_UTP", 5>>,
                  <<"Textos", 7>>, <<"Fibra_Data", 1>> >>,
     DISPOSITIVOS |-> << [key |-> K_apQty, icono |-> "ap", label |-> "AP"],
                         [key |-> K_camQty, icono |-> "camara", label |-> "CAM"] >>,
     MAPEO_SWITCH |-> (K_apQty :> R_SW_CORE) @@ (K_camQty :> R_SW_CORE),
     SWITCH_CONFIG |-> (R_SW_CORE :> [capa |-> "Fibra_Data", color |-> 1,
                                      label |-> "FO"])]

\* the same file with no "Textos" entry in its layer table; the script never
\* reads cfg['CAPAS']['Textos'], so it runs on this file as on the other
ConfigSinTextos ==
    [ConfigBase EXCEPT !.CAPAS = SelectSeq(@, LAMBDA e : e[1] # "Textos")]

\* what CONFIG_FILE holds: a configuration, nothing, or text that is no JSON
ConfigFiles == {"base", "sin_textos", "missing", "invalid"}

\* a file the script has not looked at yet
SinLeer == "?"

\* json.load of a readable config.json
Config(name) == IF name = "sin_textos" THEN ConfigSinTextos ELSE ConfigBase

\* a full line of torres.csv
Fila(t, n, c) ==
    (K_TORRE :> Str(t)) @@ (K_NIVEL :> Str(n))
    @@ (K_torre_nombre :> Str(c.nombre)) @@ (K_nivel_nombre :> Str(c.nivel))
    @@ (K_apQty :> Str(c.ap)) @@ (K_camQty :> Str(c.cam))
    @@ (K_switch_core :> Str(c.sw)) @@ (K_switch_core_modelo :> Str(c.modelo))

\* a line that ends after its first field: DictReader fills in None
FilaCorta(t) == [k \in Range(Columnas) |-> IF k = K_TORRE THEN Str(t) ELSE None]

\* a mapping without column k
SinColumna(row, k) == [x \in DOMAIN row \ {k} |-> row[x]]

V_T == <<"T">>
V_N == <<"N">>
V_X1 == <<"X", "1">>

\* what a line says besides its tower and level
Cargas ==
    { [nombre |-> V_T, nivel |-> V_N, ap |-> <<"2">>, cam |-> <<"1">>,
       sw |-> <<"1">>, modelo |-> V_X1],
      [nombre |-> <<>>, nivel |-> V_N, ap |-> <<"2">>, cam |-> <<>>,
       sw |-> <<"1">>, modelo |-> <<>>],
      [nombre |-> <<>>, nivel |-> V_N, ap |-> <<"-", "5">>, cam |-> <<"3">>,
       sw |-> <<"0">>, modelo |-> V_X1],
      [nombre |-> <<>>, nivel |-> <<>>, ap |-> <<"x">>, cam |-> <<>>,
       sw |-> <<>>, modelo |-> <<>>] }

\* the (TORRE, NIVEL) pairs of the well-formed lines
Ubicaciones ==
    { <<<<"-", "1">>, <<"0">>>>, <<<<"0">>, <<"0">>>>, <<<<"0">>, <<"1">>>> }

FilasValidas == {Fila(u[1], u[2], c) : u \in Ubicaciones, c \in Cargas}

FilaEjemplo == Fila(<<"1">>, <<"0">>, CHOOSE c \in Cargas : c.modelo = V_X1 /\ c.sw = <<"1">>)

\* lines without a parseable TORRE or NIVEL
FilasMalas ==
    { FilaCorta(<<"1">>),
      [FilaEjemplo EXCEPT ![K_TORRE] = Str(<<"x">>)],
      [FilaEjemplo EXCEPT ![K_NIVEL] = Str(<<>>)],
      SinColumna(FilaEjemplo, K_TORRE) }

Filas == FilasValidas \cup FilasMalas

\* the sequences over S of length at most n
RECURSIVE SeqsUpTo(_, _)
SeqsUpTo(S, n) ==
    IF n = 0 THEN {<<>>}
    ELSE LET prev == SeqsUpTo(S, n - 1)
         IN  prev \cup {Append(q, x) : q \in {p \in prev : Len(p) = n - 1}, x \in S}

(***************************************************************************)
(* State.                                                                  *)
(***************************************************************************)
VARIABLES
    config_file,    \* what config.json holds (an element of ConfigFiles);
                    \* SinLeer until the script first looks at it
    csv_file,       \* torres.csv: [visto, existe, filas]; visto is false
                    \* until the script first looks at it
    reloj,          \* the wall clock, in seconds
    corrida,        \* which execution of the script this is (1 or 2)
    previa,         \* what the first execution produced, kept for comparison
    pc,             \* the position of main()
    cfg,            \* config of main(): the name of the loaded configuration
    torres,         \* torres of cargar_datos_csv: tower id -> tower
    fila,           \* how many rows the reader has yielded
    datos_torres,   \* torres_list / datos_torres: the sorted list of towers
    posiciones,     \* per tower of the list: its 'id' and 'x' (lines 285-286)
    alturas_niveles,\* level id -> y (lines 290-294)
    lisp,           \* dibujo_red.lsp: [abierto, ops]
    torre_j,        \* how many towers the loop of line 314 has drawn
    switch_coords_para_fibra, \* tower 'id' -> role -> point (line 311)
    cables_por_troncal,       \* role -> count, of the tower drawn last
    bom,            \* bom_proyecto.txt: [abierto, lineas]
    log,            \* the records handed to logging, as <<level, event>>
    salida          \* how main() ended: "", "ok", "vacio" or "error"

vars ==
    <<config_file, csv_file, reloj, corrida, previa, pc, cfg, torres, fila,
      datos_torres, posiciones, alturas_niveles, lisp, torre_j,
      switch_coords_para_fibra, cables_por_troncal, bom, log, salida>>

entradas == <<config_file, csv_file>>
dibujo == <<posiciones, alturas_niveles, lisp, torre_j,
            switch_coords_para_fibra, cables_por_troncal>>

SinArchivo == [abierto |-> FALSE, ops |-> <<>>]
SinBom == [abierto |-> FALSE, lineas |-> <<>>]
SinPrevia == [hecha |-> FALSE, posiciones |-> <<>>, alturas |-> <<>>,
              lisp |-> SinArchivo, bom |-> SinBom, salida |-> ""]

\* the state of a fresh process, before main() runs
Arranque ==
    /\ pc = "main"
    /\ cfg = ""
    /\ torres = <<>>
    /\ fila = 0
    /\ datos_torres = <<>>
    /\ posiciones = <<>>
    /\ alturas_niveles = <<>>
    /\ lisp = SinArchivo
    /\ torre_j = 0
    /\ switch_coords_para_fibra = <<>>
    /\ cables_por_troncal = <<>>
    /\ bom = SinBom
    /\ log = <<>>
    /\ salida = ""

\* the files torres.csv can be
CsvFiles ==
    {[visto |-> TRUE, existe |-> FALSE, filas |-> <<>>]}
    \cup {[visto |-> TRUE, existe |-> TRUE, filas |-> f] : f \in SeqsUpTo(Filas, MaxRows)}

\* The two files are inputs: what they hold is fixed the first time the
\* script looks at them, and is the same for every later execution.
Init ==
    /\ config_file = SinLeer
    /\ csv_file = [visto |-> FALSE, existe |-> FALSE, filas |-> <<>>]
    /\ reloj = 1
    /\ corrida = 1
    /\ previa = SinPrevia
    /\ Arranque

Log(nivel, evento) == log' = Append(log, <<nivel, evento>>)

\* line 484-485: main() catches whatever was raised and logs it as critical
Abortar(errores) ==
    /\ log' = log \o errores \o << <<"CRITICAL", "error inesperado">> >>
    /\ pc' = "fin"
    /\ salida' = "error"

(***************************************************************************)
(* main(), lines 470-473: the configuration, then the inventory.           *)
(***************************************************************************)
\* cargar_configuracion, lines 34-45
CargarConfiguracion ==
    /\ pc = "main"
    /\ config_file' \in IF config_file = SinLeer THEN ConfigFiles ELSE {config_file}
    /\ IF config_file' \in {"missing", "invalid"}
       THEN /\ Abortar(<< <<"INFO", "inicio">>, <<"ERROR", config_file'>> >>)
            /\ UNCHANGED cfg
       ELSE /\ cfg' = config_file'
            /\ pc' = "csv"
            /\ log' = log \o << <<"INFO", "inicio">>, <<"INFO", "cargando configuracion">> >>
            /\ UNCHANGED salida
    /\ UNCHANGED <<csv_file, reloj, corrida, previa, torres, fila, datos_torres,
                   dibujo, bom>>

\* cargar_datos_csv, lines 49-60: the file must exist; torres starts empty
AbrirCsv ==
    /\ pc = "csv"
    /\ csv_file' \in IF csv_file.visto THEN {csv_file} ELSE CsvFiles
    /\ IF ~csv_file'.existe
       THEN Abortar(<< <<"ERROR", "csv no encontrado">> >>)
       ELSE /\ pc' = "filas"
            /\ UNCHANGED <<log, salida>>
    /\ torres' = <<>>
    /\ fila' = 0
    /\ UNCHANGED <<config_file, reloj, corrida, previa, cfg, datos_torres, dibujo, bom>>

\* lines 62-94: one iteration of the loop over the reader.  ValueError and
\* KeyError are caught and logged; any other exception leaves the function.
LeerFila ==
    /\ pc = "filas"
    /\ fila < Len(csv_file.filas)
    /\ LET r == ProcesarFila(torres, csv_file.filas[fila + 1])
       IN  /\ torres' = r.torres
           /\ fila' = fila + 1
           /\ IF r.err \in {"ValueError", "KeyError"}
              THEN Log("ERROR", "fila") /\ UNCHANGED <<pc, salida>>
              ELSE IF r.err # ""
              THEN Abortar(<<>>)
              ELSE UNCHANGED <<pc, log, salida>>
    /\ UNCHANGED <<entradas, reloj, corrida, previa, cfg, datos_torres, dibujo, bom>>

\* the keys of a mapping with integer keys, ascending: sorted(d)
RECURSIVE Ordenadas(_)
Ordenadas(S) ==
    IF S = {} THEN <<>>
    ELSE LET m == CHOOSE x \in S : \A y \in S : x <= y
         IN  <<m>> \o Ordenadas(S \ {m})

\* line 98 without sorted(): the towers in the reverse of ascending order
ListaSinOrdenar(ts) ==
    LET ks == Ordenadas(DOMAIN ts)
    IN  [i \in 1..Len(ks) |->
            LET k == ks[Len(ks) + 1 - i]
            IN  [clave |-> k, nombre |-> ts[k].nombre,
                 niveles |-> ts[k].niveles, switches |-> ts[k].switches]]

\* lines 97-101: the list of the towers by ascending id.  clave is the csv
\* id the tower was merged under; the code keeps only the list position.
ListaOrdenada(ts) ==
    LET ks == Ordenadas(DOMAIN ts)
    IN  [i \in 1..Len(ks) |->
            [clave |-> ks[i], nombre |-> ts[ks[i]].nombre,
             niveles |-> ts[ks[i]].niveles, switches |-> ts[ks[i]].switches]]

\* lines 96-104 and 475-477: the reader is exhausted; the list is built and
\* main() stops with a warning when it is empty
OrdenarTorres ==
    /\ pc = "filas"
    /\ fila = Len(csv_file.filas)
    /\ datos_torres' = ListaOrdenada(torres)
    /\ IF datos_torres' = <<>>
       THEN /\ log' = log \o << <<"INFO", "cargados">>, <<"WARNING", "sin datos">> >>
            /\ pc' = "fin"
            /\ salida' = "vacio"
       ELSE /\ Log("INFO", "cargados")
            /\ pc' = "lisp"
            /\ UNCHANGED salida
    /\ UNCHANGED <<entradas, reloj, corrida, previa, cfg, torres, fila, dibujo, bom>>

(***************************************************************************)
(* Drawing operations (lines 108-159).  Each line written to the LISP file *)
(* is one operation; coordinates are integers (the configuration keeps     *)
(* every halved length even), circles are in quarter units because the     *)
(* icon templates use the radius 21.25 and the offset 7.5.                 *)
(***************************************************************************)
\* lisp_escribir of a fixed line (a comment, a princ, a setup command)
Escribir(t) == <<[op |-> "raw", t |-> t]>>

\* lisp_crear_capa
CrearCapa(nombre, color) == <<[op |-> "crear_capa", capa |-> nombre, color |-> color]>>

\* lisp_seleccionar_capa_y_color: two lines
SeleccionarCapaYColor(capa, color) ==
    <<[op |-> "capa", capa |-> capa], [op |-> "color", color |-> color]>>

\* what a line of the drawing stands for; it is not written to the file
SinMarca == [que |-> "", torre |-> 0 - 1, sw |-> <<>>]
Marca(que, torre, sw) == [que |-> que, torre |-> torre, sw |-> sw]

\* lisp_dibujar_linea
DibujarLinea(p1, p2) == <<[op |-> "linea", p1 |-> p1, p2 |-> p2, de |-> SinMarca]>>

\* the same operations, annotated with what they stand for
Anotar(ops, m) ==
    [i \in 1..Len(ops) |->
        IF ops[i].op \in {"linea", "texto"} THEN [ops[i] EXCEPT !.de = m] ELSE ops[i]]

\* the text of a label: a format and what fills it
Texto(k, s, n, t) == [k |-> k, s |-> s, n |-> n, t |-> t]

\* lisp_dibujar_texto with its default layer "Textos" and colour 7
DibujarTexto(punto, altura, texto, justificacion) ==
    SeleccionarCapaYColor("Textos", 7)
    \o <<[op |-> "texto", p |-> punto, h |-> altura, txt |-> texto,
          j |-> justificacion, de |-> SinMarca]>>

\* lisp_dibujar_polilinea
DibujarPolilinea(puntos, cerrada) ==
    <<[op |-> "pline", pts |-> puntos, cerrada |-> cerrada]>>

\* lisp_dibujar_rectangulo
DibujarRectangulo(p1, p2) ==
    DibujarPolilinea(<<p1, <<p2[1], p1[2]>>, p2, <<p1[1], p2[2]>> >>, TRUE)

\* lisp_dibujar_circulo, centre and radius in quarter units
DibujarCirculo(c4, r4) == <<[op |-> "circulo", c4 |-> c4, r4 |-> r4]>>

\* the colour of a layer: cfg['CAPAS'][capa]
ColorCapa(c, capa) ==
    LET i == CHOOSE i \in 1..Len(c.CAPAS) : c.CAPAS[i][1] = capa
    IN  c.CAPAS[i][2]

\* dibujar_icono_ap
DibujarIconoAp(c, x, y) ==
    SeleccionarCapaYColor("APs", ColorCapa(c, "APs"))
    \o DibujarPolilinea(<< <<x - 10, y>>, <<x + 10, y>>, <<x, y + 25>>, <<x - 10, y>> >>, FALSE)
    \o DibujarCirculo(<<4 * x, 4 * (y + 25)>>, 40)
    \o DibujarCirculo(<<4 * x, 4 * (y + 25)>>, 85)
    \o DibujarCirculo(<<4 * x, 4 * (y + 25)>>, 120)

\* dibujar_icono_camara
DibujarIconoCamara(c, x, y) ==
    SeleccionarCapaYColor("Camaras", ColorCapa(c, "Camaras"))
    \o DibujarRectangulo(<<x - 10, y>>, <<x + 10, y + 15>>)
    \o DibujarCirculo(<<4 * x, 4 * y + 30>>, 12)

\* line 350: globals()["dibujar_icono_" + icono]
DibujarIcono(c, icono, x, y) ==
    IF icono = "ap" THEN DibujarIconoAp(c, x, y) ELSE DibujarIconoCamara(c, x, y)

\* dibujar_switch
DibujarSwitch(c, x, y, nombre, modelo) ==
    LET capa == IF nombre = R_SW_UPS THEN "UPS" ELSE "Switches"
    IN  SeleccionarCapaYColor(capa, ColorCapa(c, capa))
        \o DibujarRectangulo(<<x, y>>, <<x + c.SWITCH_ANCHO, y + c.SWITCH_ALTO>>)
        \o DibujarTexto(<<x + c.SWITCH_ANCHO \div 2, y + c.SWITCH_ALTO \div 2>>,
                        c.SWITCH_TEXTO_ALTURA,
                        Texto("switch", nombre, 0, modelo), "C")

(***************************************************************************)
(* generar_lisp.                                                           *)
(***************************************************************************)
\* lines 265-278: the AutoCAD set-up and one layer per entry of CAPAS
RECURSIVE CrearCapas(_, _)
CrearCapas(capas, i) ==
    IF i > Len(capas) THEN <<>>
    ELSE CrearCapa(capas[i][1], capas[i][2]) \o CrearCapas(capas, i + 1)

Preambulo(c) ==
    Escribir("setq *error*") \o Escribir("setvar OSMODE") \o Escribir("PURGE")
    \o Escribir("REGEN") \o Escribir("VISUALSTYLE") \o Escribir("UNDO BEGIN")
    \o Escribir("princ inicio") \o Escribir("; crear capas")
    \o Escribir("princ creando capas") \o CrearCapas(c.CAPAS, 1)
    \o Escribir("princ done")

\* line 285: the 'id' given to the i-th tower of the list (i from 1 here)
IdDeTorre(i) == i - 1

\* lines 283-287: 'id' and 'x' of every tower of the list
Posiciones(c, ts) ==
    [i \in 1..Len(ts) |->
        [id |-> IdDeTorre(i),
         x |-> c.X_INICIAL
               + (i - 1) * (c.LONGITUD_PISO + c.SEPARACION_ENTRE_TORRES)]]

\* line 291: the level ids of all towers, ascending
NivelesOrdenados(ts) ==
    Ordenadas(UNION {DOMAIN ts[i].niveles : i \in 1..Len(ts)})

\* lines 289-294: the y of every level
AlturasNiveles(c, ts) ==
    LET ns == NivelesOrdenados(ts)
    IN  [n \in Range(ns) |->
            c.Y_INICIAL
            + ((CHOOSE i \in 1..Len(ns) : ns[i] = n) - 1) * c.ESPACIO_ENTRE_NIVELES]

\* lines 261-300: the file is opened, the layers created, the coordinates set
GenerarLispInicio ==
    /\ pc = "lisp"
    /\ LET c == Config(cfg)
       IN  /\ posiciones' = Posiciones(c, datos_torres)
           /\ alturas_niveles' = AlturasNiveles(c, datos_torres)
           /\ lisp' = [abierto |-> TRUE,
                       ops |-> Preambulo(c) \o Escribir("; inicio de dibujo")
                               \o Escribir("princ niveles")]
    /\ Log("INFO", "iniciando lisp")
    /\ pc' = "niveles"
    /\ UNCHANGED <<entradas, reloj, corrida, previa, cfg, torres, fila,
                   datos_torres, torre_j, switch_coords_para_fibra,
                   cables_por_troncal, bom, salida>>

\* line 306: the towers of the list that have level n, in list order
TorresConNivel(ts, n) == SelectSeq(ts, LAMBDA t : n \in DOMAIN t.niveles)

\* line 306: the label of level n is read from the first tower that has the
\* level; the subscript raises KeyError when that level has no nivel_nombre
NombreNivel(ts, n) ==
    LET con == TorresConNivel(ts, n)
    IN  IF con = <<>> THEN [err |-> "", txt |-> Texto("NIVEL", <<>>, n, "")]
        ELSE IF K_nivel_nombre \in DOMAIN con[1].niveles[n]
        THEN [err |-> "", txt |-> Texto("nombre", con[1].niveles[n][K_nivel_nombre].s, 0, "")]
        ELSE [err |-> "KeyError", txt |-> Texto("", <<>>, 0, "")]

\* lines 301-307 for the levels ns[i..]: the operations written, until a
\* level's label raises
RECURSIVE LineasDeNivel(_, _, _, _, _, _)
LineasDeNivel(c, ts, pos, alt, ns, i) ==
    IF i > Len(ns) THEN [err |-> "", ops |-> <<>>]
    ELSE LET y == alt[ns[i]]
             p1 == <<c.X_INICIAL - 100, y>>
             p2 == <<pos[Len(pos)].x + c.LONGITUD_PISO + 100, y>>
             nom == NombreNivel(ts, ns[i])
             pre == SeleccionarCapaYColor("Niveles", ColorCapa(c, "Niveles"))
                    \o DibujarLinea(p1, p2)
         IN  IF nom.err # "" THEN [err |-> nom.err, ops |-> pre]
             ELSE LET rest == LineasDeNivel(c, ts, pos, alt, ns, i + 1)
                  IN  [err |-> rest.err,
                       ops |-> pre \o DibujarTexto(<<p1[1] - 10, y>>, 15, nom.txt, "MR")
                               \o rest.ops]

\* lines 300-311: the guide line and the label of every level
DibujarNiveles ==
    /\ pc = "niveles"
    /\ LET r == LineasDeNivel(Config(cfg), datos_torres, posiciones,
                              alturas_niveles, Ordenadas(DOMAIN alturas_niveles), 1)
       IN  IF r.err # ""
           THEN /\ lisp' = [lisp EXCEPT !.ops = @ \o r.ops]
                /\ Abortar(<<>>)
           ELSE /\ lisp' = [lisp EXCEPT !.ops = @ \o r.ops \o Escribir("princ done")]
                /\ pc' = "torres"
                /\ UNCHANGED <<log, salida>>
    /\ UNCHANGED <<entradas, reloj, corrida, previa, cfg, torres, fila,
                   datos_torres, posiciones, alturas_niveles, torre_j,
                   switch_coords_para_fibra, cables_por_troncal, bom>>

\* the characters of the model in code-point order
Alfabeto ==
    <<" ", "+", "-", "0", "1", "2", "3", "4", "5", "6", "7", "8", "9",
      "A", "B", "C", "D", "E", "F", "G", "H", "I", "J", "K", "L", "M", "N",
      "O", "P", "Q", "R", "S", "T", "U", "V", "W", "X", "Y", "Z", "_",
      "a", "b", "c", "d", "e", "f", "g", "h", "i", "j", "k", "l", "m", "n",
      "o", "p", "q", "r", "s", "t", "u", "v", "w", "x", "y", "z">>

Ord(ch) == CHOOSE i \in 1..Len(Alfabeto) : Alfabeto[i] = ch

\* a <= b for str
RECURSIVE StrLeq(_, _)
StrLeq(a, b) ==
    IF a = <<>> THEN TRUE
    ELSE IF b = <<>> THEN FALSE
    ELSE IF Head(a) = Head(b) THEN StrLeq(Tail(a), Tail(b))
    ELSE Ord(Head(a)) < Ord(Head(b))

\* sorted(S) for a set of str
RECURSIVE OrdenarNombres(_)
OrdenarNombres(S) ==
    IF S = {} THEN <<>>
    ELSE LET m == CHOOSE x \in S : \A y \in S : StrLeq(x, y)
         IN  <<m>> \o OrdenarNombres(S \ {m})

\* line 325: the switch roles of a tower, sorted by name
SwitchesEnTorre(t) ==
    OrdenarNombres({sw \in DOMAIN t.switches : StartsWith(sw, L_SW)})

\* lines 329-335 for the switches sws[i..] of tower t: the operations, the
\* cable end of each switch (actual) and its fibre end (fibra)
RECURSIVE DibujarSwitches(_, _, _, _, _, _)
DibujarSwitches(c, t, x_base, y_switch_inicial, sws, i) ==
    IF i > Len(sws) THEN [ops |-> <<>>, actual |-> <<>>, fibra |-> <<>>]
    ELSE LET x_switch == x_base + 50
             y_switch == y_switch_inicial - (i - 1) * c.SWITCH_VERTICAL_SPACING
             rest == DibujarSwitches(c, t, x_base, y_switch_inicial, sws, i + 1)
         IN  [ops |-> DibujarSwitch(c, x_switch, y_switch, sws[i], t.switches[sws[i]])
                      \o rest.ops,
              actual |-> Put(rest.actual, sws[i],
                             <<x_switch, y_switch + c.SWITCH_ALTO \div 2>>),
              fibra |-> Put(rest.fibra, sws[i],
                            <<x_switch + c.SWITCH_ANCHO \div 2, y_switch>>)]

\* nivel_data.get(tipo_qty, 0)
Cantidad(nivel_data, tipo_qty) ==
    IF tipo_qty \in DOMAIN nivel_data THEN nivel_data[tipo_qty].n ELSE 0

\* line 348: the device type is drawn on this level
SeDibuja(cantidad) == cantidad > 0

\* lines 346-362 for the device types k.. of the catalog on one level.
\* acc: [ops, cables (role -> count), altos (<<role, point>>, in order of
\* first use), x (x_dispositivo)]
RECURSIVE DispositivosDeNivel(_, _, _, _, _, _, _, _)
DispositivosDeNivel(c, id, nivel_data, y_nivel, x_canaleta_utp, actual, k, acc) ==
    IF k > Len(c.DISPOSITIVOS) THEN acc
    ELSE LET conf == c.DISPOSITIVOS[k]
             cantidad == Cantidad(nivel_data, conf.key)
             y_dispositivo == y_nivel + c.DISPOSITIVO_Y_OFFSET
             sw_tipo == IF conf.key \in DOMAIN c.MAPEO_SWITCH
                        THEN c.MAPEO_SWITCH[conf.key] ELSE <<>>
             cableado == sw_tipo # <<>> /\ sw_tipo \in DOMAIN actual
             p_canaleta == <<x_canaleta_utp, y_dispositivo>>
             icono == DibujarIcono(c, conf.icono, acc.x, y_dispositivo)
                      \o DibujarTexto(<<acc.x, y_dispositivo - 20>>, 10,
                                      Texto("cantidad", <<>>, cantidad, conf.label), "C")
             cable == SeleccionarCapaYColor("Cables_UTP", ColorCapa(c, "Cables_UTP"))
                      \o Anotar(DibujarLinea(<<acc.x, y_dispositivo>>, p_canaleta),
                                Marca("latiguillo", id, sw_tipo))
             nxt == IF ~SeDibuja(cantidad) THEN acc
                    ELSE IF ~cableado
                    THEN [acc EXCEPT !.ops = @ \o icono,
                                     !.x = @ + c.DISPOSITIVO_ESPACIADO_X]
                    ELSE [ops |-> acc.ops \o icono \o cable,
                          cables |-> Put(acc.cables, sw_tipo,
                                         (IF sw_tipo \in DOMAIN acc.cables
                                          THEN acc.cables[sw_tipo] ELSE 0) + cantidad),
                          altos |-> IF \E j \in 1..Len(acc.altos) : acc.altos[j][1] = sw_tipo
                                    THEN acc.altos
                                    ELSE Append(acc.altos, <<sw_tipo, p_canaleta>>),
                          x |-> acc.x + c.DISPOSITIVO_ESPACIADO_X]
         IN  DispositivosDeNivel(c, id, nivel_data, y_nivel, x_canaleta_utp, actual,
                                 k + 1, nxt)

\* sorted(torre['niveles'].items(), reverse=True): the level ids, descending
Descendentes(S) ==
    LET a == Ordenadas(S) IN [i \in 1..Len(a) |-> a[Len(a) + 1 - i]]

\* lines 343-362 for the levels ns[i..] of a tower, top down
RECURSIVE NivelesDeTorre(_, _, _, _, _, _, _, _, _)
NivelesDeTorre(c, id, t, alt, x_base, x_canaleta_utp, actual, ns, acc) ==
    IF ns = <<>> THEN acc
    ELSE NivelesDeTorre(c, id, t, alt, x_base, x_canaleta_utp, actual, Tail(ns),
             DispositivosDeNivel(c, id, t.niveles[Head(ns)], alt[Head(ns)],
                                 x_canaleta_utp, actual, 1,
                                 [acc EXCEPT !.x = x_base + 50]))

\* lines 364-369: trunk, patch line and count label of every trunk
RECURSIVE Troncales(_, _, _, _, _, _, _)
Troncales(c, id, x_canaleta_utp, actual, cables, altos, i) ==
    IF i > Len(altos) THEN <<>>
    ELSE LET sw_tipo == altos[i][1]
             p_troncal_sup == altos[i][2]
             p_destino_sw == actual[sw_tipo]
             p_troncal_inf == <<x_canaleta_utp, p_destino_sw[2]>>
         IN  Anotar(DibujarLinea(p_troncal_sup, p_troncal_inf),
                    Marca("troncal", id, sw_tipo))
             \o Anotar(DibujarLinea(p_troncal_inf,
                                    <<p_destino_sw[1] + c.SWITCH_ANCHO, p_destino_sw[2]>>),
                       Marca("patch", id, sw_tipo))
             \o Anotar(DibujarTexto(<<x_canaleta_utp + 5,
                                      (p_troncal_sup[2] + p_troncal_inf[2]) \div 2>>, 8,
                                    Texto("CAT6A", <<>>, cables[sw_tipo], ""), "ML"),
                       Marca("etiqueta", id, sw_tipo))
             \o Troncales(c, id, x_canaleta_utp, actual, cables, altos, i + 1)

\* min(alturas_niveles.keys())
Minimo(S) == CHOOSE x \in S : \A y \in S : x <= y

\* lines 315-371: one tower of the list: label, switches, devices, UTP cabling
TorreDibujada(c, t, pos, alt) ==
    LET x_base == pos.x
        y_etiqueta_torre == alt[Minimo(DOMAIN alt)] - c.TORRE_LABEL_OFFSET_Y
        y_sotano == IF 0 \in DOMAIN alt THEN alt[0] ELSE c.Y_INICIAL
        y_switch_inicial == y_sotano - c.SWITCH_VERTICAL_SPACING * 2
        sw == DibujarSwitches(c, t, x_base, y_switch_inicial, SwitchesEnTorre(t), 1)
        x_canaleta_utp == pos.x + c.LONGITUD_PISO + c.CABLE_TRUNK_OFFSET_X
        niv == NivelesDeTorre(c, pos.id, t, alt, x_base, x_canaleta_utp, sw.actual,
                              Descendentes(DOMAIN t.niveles),
                              [ops |-> <<>>, cables |-> <<>>, altos |-> <<>>,
                               x |-> x_base + 50])
    IN  [ops |-> Escribir("; dibujar torre") \o Escribir("princ torre")
                 \o DibujarTexto(<<x_base + c.LONGITUD_PISO \div 2, y_etiqueta_torre>>,
                                 c.TORRE_LABEL_ALTURA,
                                 Texto("nombre", t.nombre, 0, ""), "C")
                 \o Escribir("princ switches") \o sw.ops \o Escribir("princ done")
                 \o Escribir("princ dispositivos") \o niv.ops
                 \o Troncales(c, pos.id, x_canaleta_utp, sw.actual, niv.cables,
                              niv.altos, 1)
                 \o Escribir("princ done"),
         fibra |-> sw.fibra,
         cables |-> niv.cables]

\* lines 314-371: one iteration of the loop over the towers
DibujarTorre ==
    /\ pc = "torres"
    /\ torre_j < Len(datos_torres)
    /\ LET j == torre_j + 1
           r == TorreDibujada(Config(cfg), datos_torres[j], posiciones[j],
                              alturas_niveles)
       IN  /\ lisp' = [lisp EXCEPT !.ops = @ \o r.ops]
           /\ switch_coords_para_fibra' =
                  IF r.fibra = <<>> THEN switch_coords_para_fibra
                  ELSE Put(switch_coords_para_fibra, posiciones[j].id, r.fibra)
           /\ cables_por_troncal' = r.cables
           /\ torre_j' = j
    /\ UNCHANGED <<entradas, reloj, corrida, previa, pc, cfg, torres, fila,
                   datos_torres, posiciones, alturas_niveles, bom, log, salida>>

\* switch_coords_para_fibra[id] of the defaultdict(dict)
FibraDe(coords, id) == IF id \in DOMAIN coords THEN coords[id] ELSE <<>>

\* line 378: the roles of the MDF by ascending y of their switch; the sort
\* is stable over the order in which the switches were drawn
RECURSIVE OrdenarPorY(_, _)
OrdenarPorY(coords, names) ==
    IF names = <<>> THEN <<>>
    ELSE LET k == CHOOSE i \in 1..Len(names) :
                      /\ \A j \in 1..Len(names) : coords[names[i]][2] <= coords[names[j]][2]
                      /\ \A j \in 1..(i - 1) : coords[names[j]][2] # coords[names[i]][2]
         IN  <<names[k]>>
             \o OrdenarPorY(coords, SubSeq(names, 1, k - 1)
                                    \o SubSeq(names, k + 1, Len(names)))

\* line 375: the tower whose switches the backbone starts from
IdMdf == 0

\* line 386: the positions in the list of the towers joined to the trunk of
\* role sw_tipo
TorresConectadas(pos, coords, sw_tipo) ==
    SelectSeq([i \in 1..Len(pos) |-> i],
              LAMBDA i : pos[i].id # IdMdf /\ sw_tipo \in DOMAIN FibraDe(coords, pos[i].id))

\* lines 396-399: the drop of every joined tower
RECURSIVE BajadasIdf(_, _, _, _, _)
BajadasIdf(pos, coords, sw_tipo, y_canaleta_fibra, con) ==
    IF con = <<>> THEN <<>>
    ELSE LET id == pos[Head(con)].id
             idf_sw_coord == coords[id][sw_tipo]
         IN  Anotar(DibujarLinea(<<idf_sw_coord[1], y_canaleta_fibra>>, idf_sw_coord),
                    Marca("fibra_idf", id, sw_tipo))
             \o BajadasIdf(pos, coords, sw_tipo, y_canaleta_fibra, Tail(con))

\* lines 378-401 for the roles sws[i..] of the MDF
RECURSIVE Fibra(_, _, _, _, _, _)
Fibra(c, pos, coords, sws, i, y_canaleta_fibra) ==
    IF i > Len(sws) THEN <<>>
    ELSE LET sw_tipo == sws[i]
             con_conf == sw_tipo \in DOMAIN c.SWITCH_CONFIG
             capa == IF con_conf THEN c.SWITCH_CONFIG[sw_tipo].capa ELSE "Fibra_Data"
             color == IF con_conf THEN c.SWITCH_CONFIG[sw_tipo].color ELSE 1
             label == IF con_conf THEN c.SWITCH_CONFIG[sw_tipo].label ELSE "FO"
             p_mdf_salida == coords[IdMdf][sw_tipo]
             p_mdf_canaleta == <<p_mdf_salida[1], y_canaleta_fibra>>
             con == TorresConectadas(pos, coords, sw_tipo)
             ultima_idf_coord == coords[pos[con[Len(con)]].id][sw_tipo]
             p_canaleta_fin == <<ultima_idf_coord[1], y_canaleta_fibra>>
             mdf == SeleccionarCapaYColor(capa, color)
                    \o Anotar(DibujarLinea(p_mdf_salida, p_mdf_canaleta),
                              Marca("fibra_mdf", IdMdf, sw_tipo))
             resto == Fibra(c, pos, coords, sws, i + 1, y_canaleta_fibra - 30)
         IN  IF con = <<>> THEN mdf \o resto
             ELSE mdf
                  \o Anotar(DibujarLinea(p_mdf_canaleta, p_canaleta_fin),
                            Marca("fibra_troncal", IdMdf, sw_tipo))
                  \o DibujarTexto(<<(p_mdf_canaleta[1] + p_canaleta_fin[1]) \div 2,
                                    y_canaleta_fibra + 5>>, 8,
                                  Texto("fibra", <<>>, Len(con), label), "C")
                  \o BajadasIdf(pos, coords, sw_tipo, y_canaleta_fibra, con)
                  \o resto

\* lines 374-402: the backbone of every role of the MDF
CableadoFibra(c, pos, coords) ==
    LET mdf_switch_coords == FibraDe(coords, IdMdf)
    IN  Fibra(c, pos, coords,
              OrdenarPorY(mdf_switch_coords, OrdenarNombres(DOMAIN mdf_switch_coords)),
              1, c.Y_INICIAL - c.TORRE_LABEL_OFFSET_Y - c.CABLE_TRUNK_OFFSET_Y)

\* lines 373-410: the loop over the towers is done; backbone, then finalize
DibujarFibra ==
    /\ pc = "torres"
    /\ torre_j = Len(datos_torres)
    /\ lisp' = [lisp EXCEPT !.ops =
                    @ \o Escribir("princ fibra")
                      \o CableadoFibra(Config(cfg), posiciones, switch_coords_para_fibra)
                      \o Escribir("princ done") \o Escribir("; finalizar")
                      \o Escribir("princ finalizando") \o Escribir("ZOOM E")
                      \o Escribir("UNDO END") \o Escribir("princ completado")]
    /\ Log("INFO", "lisp generado")
    /\ pc' = "bom"
    /\ UNCHANGED <<entradas, reloj, corrida, previa, cfg, torres, fila,
                   datos_torres, posiciones, alturas_niveles, torre_j,
                   switch_coords_para_fibra, cables_por_troncal, bom, salida>>

(***************************************************************************)
(* generar_bom.                                                            *)
(***************************************************************************)
RECURSIVE SumaSeq(_)
SumaSeq(q) == IF q = <<>> THEN 0 ELSE Head(q) + SumaSeq(Tail(q))

\* sum(f[k] for k in ks), ks a sequence of keys
SumaDe(f, ks) == SumaSeq([i \in 1..Len(ks) |-> f[ks[i]]])

\* lines 422-424: totales[tipo_qty] over every level of every tower
TotalDispositivo(ts, tipo_qty) ==
    SumaSeq([i \in 1..Len(ts) |->
        LET ns == Ordenadas(DOMAIN ts[i].niveles)
        IN  SumaSeq([j \in 1..Len(ns) |-> Cantidad(ts[i].niveles[ns[j]], tipo_qty)])])

\* lines 425-426: switches_totales[sw_nombre]
TotalSwitch(ts, sw_nombre) ==
    Cardinality({i \in 1..Len(ts) : sw_nombre \in DOMAIN ts[i].switches})

\* lines 427-428: modelos_switches[sw_nombre][modelo]
TotalModelo(ts, sw_nombre, modelo) ==
    Cardinality({i \in 1..Len(ts) :
                    /\ sw_nombre \in DOMAIN ts[i].switches
                    /\ ts[i].switches[sw_nombre] = modelo})

\* the models of a role, in the order the towers of the list first name them
RECURSIVE ModelosDe(_, _, _, _)
ModelosDe(ts, sw_nombre, i, vistos) ==
    IF i > Len(ts) THEN vistos
    ELSE LET m == IF sw_nombre \in DOMAIN ts[i].switches
                  THEN ts[i].switches[sw_nombre] ELSE <<>>
         IN  ModelosDe(ts, sw_nombre, i + 1,
                       IF m = <<>> \/ m \in Range(vistos) THEN vistos
                       ELSE Append(vistos, m))

\* strftime('%Y-%m-%d %H:%M:%S') of the clock, which counts whole seconds
FechaGeneracion(t) == t

\* lines 433-436: the header of the report
Cabecera(ahora) ==
    <<Texto("===", <<>>, 0, ""), Texto("titulo", <<>>, 0, ""),
      Texto("===", <<>>, 0, ""),
      Texto("Fecha de Generacion", <<>>, FechaGeneracion(ahora), "")>>

\* lines 438-440
Resumen(ts, total_puntos_red) ==
    <<Texto("--- RESUMEN", <<>>, 0, ""),
      Texto("Total de Torres", <<>>, Len(ts), ""),
      Texto("Total de Puntos de Red", <<>>, total_puntos_red, "")>>

\* lines 442-445
LineasDispositivos(c, ts) ==
    <<Texto("--- TOTAL DE DISPOSITIVOS", <<>>, 0, "")>>
    \o [k \in 1..Len(c.DISPOSITIVOS) |->
           Texto("unidades", <<>>, TotalDispositivo(ts, c.DISPOSITIVOS[k].key),
                 c.DISPOSITIVOS[k].label)]

\* lines 448-452: one line per role, then one per model of the role
RECURSIVE LineasSwitches(_, _)
LineasSwitches(ts, sws) ==
    IF sws = <<>> THEN <<>>
    ELSE LET ms == ModelosDe(ts, Head(sws), 1, <<>>)
         IN  <<Texto("switch", Head(sws), TotalSwitch(ts, Head(sws)), "")>>
             \o [k \in 1..Len(ms) |->
                    Texto("modelo", ms[k], TotalModelo(ts, Head(sws), ms[k]), "")]
             \o LineasSwitches(ts, Tail(sws))

\* lines 417-431 and 438-465: the report below its header
CuerpoBom(c, ts) ==
    LET total_puntos_red ==
            SumaSeq([k \in 1..Len(c.DISPOSITIVOS) |->
                        TotalDispositivo(ts, c.DISPOSITIVOS[k].key)])
        roles == UNION {DOMAIN ts[i].switches : i \in 1..Len(ts)}
    IN  Resumen(ts, total_puntos_red)
        \o LineasDispositivos(c, ts)
        \o <<Texto("--- TOTAL DE SWITCHES", <<>>, 0, "")>>
        \o LineasSwitches(ts, OrdenarNombres(roles))
        \o <<Texto("--- ESTIMACION DE CABLEADO", <<>>, 0, ""),
             Texto("Cable UTP", <<>>, total_puntos_red * 15, ""),
             Texto("Fibra Optica", <<>>,
                   (Len(ts) - 1) * Cardinality(DOMAIN c.SWITCH_CONFIG) * 50, ""),
             Texto("--- OBSERVACIONES", <<>>, 0, ""),
             Texto("obs csv", <<>>, 0, ""), Texto("obs longitud", <<>>, 0, ""),
             Texto("obs ups", <<>>, 0, ""), Texto("===", <<>>, 0, "")>>

\* the report with the time of writing repeated below its closing line
BomLineasConHoraAlPie(c, ts, ahora) ==
    Cabecera(ahora) \o CuerpoBom(c, ts)
    \o <<Texto("generado", <<>>, FechaGeneracion(ahora), "")>>

\* lines 433-465: the text of the report
BomLineas(c, ts, ahora) == Cabecera(ahora) \o CuerpoBom(c, ts)

\* lines 412-466 and 482: the report is written with the time it is written
\* at; main() then logs its success
GenerarBom ==
    /\ pc = "bom"
    /\ \E ahora \in reloj..MaxReloj :
          /\ reloj' = ahora
          /\ bom' = [abierto |-> TRUE,
                     lineas |-> BomLineas(Config(cfg), datos_torres, ahora)]
    /\ log' = log \o << <<"INFO", "iniciando bom">>, <<"INFO", "bom generado">>,
                        <<"INFO", "completado">> >>
    /\ pc' = "fin"
    /\ salida' = "ok"
    /\ UNCHANGED <<entradas, corrida, previa, cfg, torres, fila, datos_torres,
                   dibujo>>

(***************************************************************************)
(* The script is run again on the same config.json and torres.csv.         *)
(***************************************************************************)
SegundaCorrida ==
    /\ pc = "fin"
    /\ corrida = 1
    /\ corrida' = 2
    /\ previa' = [hecha |-> TRUE, posiciones |-> posiciones,
                  alturas |-> alturas_niveles, lisp |-> lisp, bom |-> bom,
                  salida |-> salida]
    /\ pc' = "main"
    /\ cfg' = ""
    /\ torres' = <<>>
    /\ fila' = 0
    /\ datos_torres' = <<>>
    /\ posiciones' = <<>>
    /\ alturas_niveles' = <<>>
    /\ lisp' = SinArchivo
    /\ torre_j' = 0
    /\ switch_coords_para_fibra' = <<>>
    /\ cables_por_troncal' = <<>>
    /\ bom' = SinBom
    /\ log' = <<>>
    /\ salida' = ""
    /\ UNCHANGED <<entradas, reloj>>

Next ==
    \/ CargarConfiguracion
    \/ AbrirCsv
    \/ LeerFila
    \/ OrdenarTorres
    \/ GenerarLispInicio
    \/ DibujarNiveles
    \/ DibujarTorre
    \/ DibujarFibra
    \/ GenerarBom
    \/ SegundaCorrida

Spec == Init /\ [][Next]_vars

(***************************************************************************)
(* What the claims speak of.                                               *)
(***************************************************************************)
\* the rows the reader has yielded so far
FilasLeidas == SubSeq(csv_file.filas, 1, fila)

\* the row has field k, holding a string that reads as an integer
EsEntero(row, k) == k \in DOMAIN row /\ ~row[k].none /\ ParseInt(row[k].s).ok

\* the integer a field reads as, 0 when it reads as none
ValorEntero(row, k) == IF EsEntero(row, k) THEN ParseInt(row[k].s).v ELSE 0

\* a valid row: TORRE and NIVEL read as integers
EsValida(row) == EsEntero(row, K_TORRE) /\ EsEntero(row, K_NIVEL)

\* the quantity columns of the header
ColumnasCantidad == {K_apQty, K_camQty, K_switch_core}
ColumnasDispositivo == {K_apQty, K_camQty}

\* the merged value of column k for tower t, level n (0 when never set)
CantidadFusionada(t, n, k) ==
    IF t \in DOMAIN torres /\ n \in DOMAIN torres[t].niveles
       /\ k \in DOMAIN torres[t].niveles[n]
    THEN torres[t].niveles[n][k].n ELSE 0

\* the sum of column k over the valid rows of q with tower t and level n
SumaFilas(q, t, n, k) ==
    SumaSeq([i \in 1..Len(q) |->
        IF EsValida(q[i]) /\ ValorEntero(q[i], K_TORRE) = t
           /\ ValorEntero(q[i], K_NIVEL) = n
        THEN ValorEntero(q[i], k) ELSE 0])

TorresVistas ==
    DOMAIN torres \cup {ValorEntero(FilasLeidas[i], K_TORRE) : i \in 1..fila}
NivelesVistos ==
    {ValorEntero(FilasLeidas[i], K_NIVEL) : i \in 1..fila}
    \cup UNION {DOMAIN torres[t].niveles : t \in DOMAIN torres}

\* C1 (merge additivity): at every point of the fold (the reader loop, before
\* and after each row, the last one included), for every tower,
\* level and quantity column, the merged value is the sum of the integer
\* values of that column over the valid rows read so far for that tower and
\* level, whatever the order of the rows; nothing is overwritten.
C1_MergeAdditivity ==
    pc = "filas" =>
        \A t \in TorresVistas : \A n \in NivelesVistos : \A k \in ColumnasCantidad :
            CantidadFusionada(t, n, k) = SumaFilas(FilasLeidas, t, n, k)

\* two rows for the same tower and level, both with a non-zero apQty, have
\* been folded
C1_Witness ==
    /\ fila = 2
    /\ EsValida(FilasLeidas[1]) /\ EsValida(FilasLeidas[2])
    /\ ValorEntero(FilasLeidas[1], K_TORRE) = ValorEntero(FilasLeidas[2], K_TORRE)
    /\ ValorEntero(FilasLeidas[1], K_NIVEL) = ValorEntero(FilasLeidas[2], K_NIVEL)
    /\ ValorEntero(FilasLeidas[1], K_apQty) # 0
    /\ ValorEntero(FilasLeidas[2], K_apQty) # 0
    /\ CantidadFusionada(ValorEntero(FilasLeidas[1], K_TORRE),
                         ValorEntero(FilasLeidas[1], K_NIVEL), K_apQty)
       = ValorEntero(FilasLeidas[1], K_apQty) + ValorEntero(FilasLeidas[2], K_apQty)

\* C2 (non-negativity): every merged device quantity of every level is an
\* integer >= 0, also when source values are blank, non-numeric or look
\* negative.
C2_NonNegativity ==
    \A t \in DOMAIN torres : \A n \in DOMAIN torres[t].niveles :
        \A k \in ColumnasDispositivo : CantidadFusionada(t, n, k) >= 0

\* the indicator column k of the row is present and is not the sentinel '0'
IndicadorPresente(row, k) == k \in DOMAIN row /\ Truthy(row[k]) /\ row[k].s # L_0

\* C3 (switch-role recording): every valid row read so far whose
\* switch_core indicator is present and not '0' has its role SW-CORE
\* recorded in the switches of its tower, with or without a model.
C3_SwitchRoleRecorded ==
    \A i \in 1..fila :
        LET r == FilasLeidas[i]
        IN  (EsValida(r) /\ K_torre_nombre \in DOMAIN r
             /\ IndicadorPresente(r, K_switch_core))
            => /\ ValorEntero(r, K_TORRE) \in DOMAIN torres
               /\ R_SW_CORE \in DOMAIN torres[ValorEntero(r, K_TORRE)].switches

\* C4 (malformed-row recovery): folding a row without a parseable TORRE or
\* NIVEL logs the error, leaves the merged towers as they were and goes on
\* to the next row: the error never leaves cargar_datos_csv.
C4_MalformedRowRecovered ==
    [][(pc = "filas" /\ fila < Len(csv_file.filas)
        /\ ~EsValida(csv_file.filas[fila + 1]))
       => (/\ pc' = "filas"
           /\ torres' = torres
           /\ fila' = fila + 1
           /\ log' = Append(log, <<"ERROR", "fila">>)
           /\ salida' = salida)]_vars

\* the towers of the list and their csv ids
Claves == [i \in 1..Len(datos_torres) |-> datos_torres[i].clave]

\* the level ids of all towers of the list
NivelesDeLaLista ==
    UNION {DOMAIN datos_torres[i].niveles : i \in 1..Len(datos_torres)}

\* C5 (ordering invariant): whatever the order of the rows, the tower list
\* is in strictly ascending tower-id order and holds every merged tower;
\* once placed, the i-th tower (from 0) is at
\* X_INICIAL + i * (LONGITUD_PISO + SEPARACION_ENTRE_TORRES), and the levels
\* of all towers get their y in ascending level-id order.
C5_OrderingInvariant ==
    /\ \A i \in 1..Len(datos_torres) : \A j \in 1..Len(datos_torres) :
           i < j => Claves[i] < Claves[j]
    /\ datos_torres # <<>> => Range(Claves) = DOMAIN torres
    /\ posiciones # <<>> =>
           /\ Len(posiciones) = Len(datos_torres)
           /\ \A i \in 1..Len(posiciones) :
                  posiciones[i].x
                  = X_INICIAL + (i - 1) * (LONGITUD_PISO + SEPARACION_ENTRE_TORRES)
           /\ DOMAIN alturas_niveles = NivelesDeLaLista
           /\ \A n \in DOMAIN alturas_niveles :
                  alturas_niveles[n]
                  = Y_INICIAL
                    + Cardinality({m \in NivelesDeLaLista : m < n}) * ESPACIO_ENTRE_NIVELES

\* towers and levels placed after rows that came in descending tower and
\* level order
C5_Witness ==
    /\ posiciones # <<>>
    /\ Len(datos_torres) = 2
    /\ Cardinality(DOMAIN alturas_niveles) = 2
    /\ Len(csv_file.filas) = 2
    /\ ValorEntero(csv_file.filas[1], K_TORRE) > ValorEntero(csv_file.filas[2], K_TORRE)
    /\ ValorEntero(csv_file.filas[1], K_NIVEL) > ValorEntero(csv_file.filas[2], K_NIVEL)

\* the quantities of a tower, over all its levels, of the device types the
\* configuration maps to role r
SumaRol(c, t, r) ==
    SumaSeq([k \in 1..Len(c.DISPOSITIVOS) |->
        IF c.DISPOSITIVOS[k].key \in DOMAIN c.MAPEO_SWITCH
           /\ c.MAPEO_SWITCH[c.DISPOSITIVOS[k].key] = r
        THEN LET ns == Ordenadas(DOMAIN t.niveles)
             IN  SumaSeq([j \in 1..Len(ns) |->
                             IF c.DISPOSITIVOS[k].key \in DOMAIN t.niveles[ns[j]]
                             THEN t.niveles[ns[j]][c.DISPOSITIVOS[k].key].n ELSE 0])
        ELSE 0])

\* C6 (cable aggregate conservation): once a tower's levels are drawn, the
\* count of every trunk of the tower (the number on the trunk's label) is
\* the sum, over the tower's levels, of the quantities of the device types
\* mapped to the trunk's role.
C6_CableConservation ==
    (pc = "torres" /\ torre_j >= 1) =>
        \A r \in DOMAIN cables_por_troncal :
            cables_por_troncal[r] = SumaRol(Config(cfg), datos_torres[torre_j], r)

\* the lines of the drawing that stand for m
LineasDe(m) ==
    {i \in 1..Len(lisp.ops) : lisp.ops[i].op = "linea" /\ lisp.ops[i].de = m}

\* the switch roles of the towers of the list
RolesDeLaLista ==
    UNION {DOMAIN datos_torres[i].switches : i \in 1..Len(datos_torres)}

\* the backbone has been drawn
FibraDibujada == pc = "bom" \/ (pc = "fin" /\ salida = "ok")

\* the positions in the list of the towers whose csv id is 0 and that own
\* role r (at most one)
Torre0Con(r) ==
    {z \in 1..Len(datos_torres) :
        datos_torres[z].clave = 0 /\ r \in DOMAIN datos_torres[z].switches}

\* C7 (backbone completeness), for the roles that tower 0 (the tower whose
\* csv id is 0) owns: once the backbone is drawn, every tower other than
\* tower 0 that owns the role has exactly one drop segment, to the trunk
\* that leaves tower 0's switch, and a tower without the role has no
\* segment.
C7_BackboneCompleteness ==
    FibraDibujada =>
        \A r \in RolesDeLaLista : \A z \in Torre0Con(r) :
            \A j \in 1..Len(datos_torres) :
                LET t == datos_torres[j]
                    id == posiciones[j].id
                IN  /\ (t.clave # 0 /\ r \in DOMAIN t.switches)
                       => /\ Cardinality(LineasDe(Marca("fibra_idf", id, r))) = 1
                          /\ LineasDe(Marca("fibra_mdf", posiciones[z].id, r)) # {}
                    /\ r \notin DOMAIN t.switches
                       => /\ LineasDe(Marca("fibra_idf", id, r)) = {}
                          /\ LineasDe(Marca("fibra_mdf", id, r)) = {}

\* C8 (emitter totality): for every non-empty merged tower list the drawing
\* is generated to its end without raising, also for a level without a
\* nivel_nombre, and the report is written after it.
C8_EmitterTotality ==
    (pc = "fin" /\ datos_torres # <<>>) => (salida = "ok" /\ bom.abierto)

\* no row read so far is valid
SinFilasValidas == \A i \in 1..Len(csv_file.filas) : ~EsValida(csv_file.filas[i])

\* C9 (no output before validated data): neither output is opened unless
\* the configuration was loaded, the inventory was read to its end and the
\* tower list is non-empty; a run over an inventory without valid rows ends
\* with the warning as its last word, as a clean no-op, both outputs
\* unopened.
C9_NoOutputBeforeData ==
    /\ (lisp.abierto \/ bom.abierto)
       => /\ cfg \in ConfigFiles \ {"missing", "invalid"}
          /\ csv_file.existe /\ fila = Len(csv_file.filas)
          /\ datos_torres # <<>>
    /\ (pc = "fin" /\ cfg # "" /\ csv_file.existe /\ SinFilasValidas)
       => /\ salida = "vacio"
          /\ log[Len(log)][1] = "WARNING"
          /\ ~lisp.abierto /\ ~bom.abierto

\* the second execution has ended
DosCorridas == previa.hecha /\ pc = "fin"

\* the report without the line that carries the time of writing
SinFecha(lineas) == SelectSeq(lineas, LAMBDA l : l.k # "Fecha de Generacion")

\* C10 as stated (determinism): two executions on the same rows and
\* configuration give the same coordinates, the same drawing operations and
\* the same report, line for line, header included.
C10_Determinism ==
    DosCorridas =>
        /\ posiciones = previa.posiciones
        /\ alturas_niveles = previa.alturas
        /\ lisp = previa.lisp
        /\ bom = previa.bom

\* C10 as amended: the same, except for the report's line
\* "Fecha de Generacion", which carries the time the report was written at.
C10_DeterminismButTimestamp ==
    DosCorridas =>
        /\ salida = previa.salida
        /\ posiciones = previa.posiciones
        /\ alturas_niveles = previa.alturas
        /\ lisp = previa.lisp
        /\ bom.abierto = previa.bom.abierto
        /\ SinFecha(bom.lineas) = SinFecha(previa.bom.lineas)
        /\ Len(bom.lineas) = Len(previa.bom.lineas)

\* both executions wrote the drawing and the report, one second apart
C10_Witness ==
    /\ DosCorridas
    /\ salida = "ok" /\ previa.salida = "ok"
    /\ Len(lisp.ops) > 0 /\ Len(SinFecha(bom.lineas)) > 0
    /\ bom # previa.bom

\* the layer that is current when the i-th operation of the drawing runs:
\* the one the last select-layer before it names ("0" in a new drawing)
CapaActiva(ops, i) ==
    LET S == {j \in 1..(i - 1) : ops[j].op = "capa"}
    IN  IF S = {} THEN "0"
        ELSE ops[CHOOSE j \in S : \A k \in S : k <= j].capa

\* C11 (layer created before first use): in the drawing written so far,
\* every select-layer operation comes after a create-layer operation for
\* the same layer name.
C11_LayerCreatedBeforeUse ==
    \A i \in 1..Len(lisp.ops) :
        lisp.ops[i].op = "capa"
        => \E j \in 1..(i - 1) :
               lisp.ops[j].op = "crear_capa" /\ lisp.ops[j].capa = lisp.ops[i].capa

\* the fibre layer of a role: SWITCH_CONFIG's, or the default of line 380
CapaDeFibra(c, sw) ==
    IF sw \in DOMAIN c.SWITCH_CONFIG THEN c.SWITCH_CONFIG[sw].capa ELSE "Fibra_Data"

\* C12 (cable segments on their cable layer): when a cable line is emitted,
\* the last select-layer names the cable's layer: Cables_UTP for a device
\* drop, a trunk and a switch patch line, the role's fibre layer for the MDF
\* drop, the shared trunk and every IDF drop of the backbone.
C12_CablesOnTheirLayer ==
    \A i \in 1..Len(lisp.ops) :
        lisp.ops[i].op = "linea"
        => /\ lisp.ops[i].de.que \in {"latiguillo", "troncal", "patch"}
              => CapaActiva(lisp.ops, i) = "Cables_UTP"
           /\ lisp.ops[i].de.que \in {"fibra_mdf", "fibra_troncal", "fibra_idf"}
              => CapaActiva(lisp.ops, i) = CapaDeFibra(Config(cfg), lisp.ops[i].de.sw)

====
